---- MODULE Spec2Model ----
(***************************************************************************)
(* Model of the bar-by-bar backtest engine, run_backtest, of               *)
(* src/backtesting.py.                                                     *)
(*                                                                         *)
(* Python floats are modelled as exact rationals <<numerator,denominator>> *)
(* kept in lowest terms with a positive denominator, so that equalities    *)
(* between money amounts are decided exactly.  The inputs are taken from   *)
(* dyadic values (powers of two) so that every intermediate value stays    *)
(* well inside TLC's integer range.                                        *)
(***************************************************************************)
EXTENDS Integers, Sequences, FiniteSets, TLC

\* ------------------------------------------------------------------------
\* Bounds and input sets
\* ------------------------------------------------------------------------

\* Largest number of rows df_with_signals may have.
MaxBars == 3

\* Largest n_trials a study is run with.
MaxTrials == 2

\* Longest equity curve calculate_calmar_for_optimization is applied to.
MaxCurveLen == 4

\* ------------------------------------------------------------------------
\* Exact rational arithmetic (the float operators +, -, *, /, <=, >=)
\* ------------------------------------------------------------------------

RECURSIVE Gcd(_, _)
Gcd(a, b) == IF b = 0 THEN a ELSE Gcd(b, a % b)

Abs(x) == IF x < 0 THEN 0 - x ELSE x

\* n/d in lowest terms, d > 0
Norm(n, d) ==
    LET g == Gcd(Abs(n), Abs(d))
        s == IF d < 0 THEN 0 - 1 ELSE 1
    IN  <<(s * n) \div g, (s * d) \div g>>

Rat(n)    == <<n, 1>>
Frac(n,d) == Norm(n, d)
Zero      == Rat(0)
One       == Rat(1)

\* least common denominator of two rationals in lowest terms
Lcd(x, y) == (x[2] \div Gcd(x[2], y[2])) * y[2]

RAdd(x, y) ==
    LET l == Lcd(x, y)
    IN  Norm(x[1] * (l \div x[2]) + y[1] * (l \div y[2]), l)

RNeg(x) == <<0 - x[1], x[2]>>

RSub(x, y) == RAdd(x, RNeg(y))

\* cross-reduced product, so no intermediate exceeds the result's size
RMul(x, y) ==
    LET g1 == Gcd(Abs(x[1]), y[2])
        g2 == Gcd(Abs(y[1]), x[2])
    IN  <<(x[1] \div g1) * (y[1] \div g2), (x[2] \div g2) * (y[2] \div g1)>>

\* x / y for y # 0
RDiv(x, y) ==
    IF y[1] > 0 THEN RMul(x, <<y[2], y[1]>>)
                ELSE RMul(x, <<0 - y[2], 0 - y[1]>>)

RLe(x, y) ==
    LET l == Lcd(x, y)
    IN  x[1] * (l \div x[2]) <= y[1] * (l \div y[2])

RGe(x, y) == RLe(y, x)
RLt(x, y) == ~RLe(y, x)
RGt(x, y) == ~RLe(x, y)

\* ------------------------------------------------------------------------
\* Inputs of run_backtest
\* ------------------------------------------------------------------------

\* Close prices a row may carry.
Prices == {Rat(1), Rat(2), Rat(4)}

\* The rows of df_with_signals: Close, buy_signal, sell_signal.
Rows == [Close : Prices, buy_signal : BOOLEAN, sell_signal : BOOLEAN]

\* initial_cash values a run is started with.
InitialCashes == {Rat(65536)}

\* The strategy parameters run_backtest reads, and max_short_pct which
\* get_params_from_trial puts in the same dictionary.
ParamSets ==
    [commission    : {Zero, Frac(1, 4)},
     pct_cash      : {Frac(1, 2), One},
     stop_loss     : {Frac(1, 2)},
     take_profit   : {Frac(1, 2), Rat(2)},
     max_short_pct : {Frac(1, 2)}]

\* ------------------------------------------------------------------------
\* Operation (src/config.py)
\* ------------------------------------------------------------------------

\* The value None of the optional fields.
None == <<0, 0>>

\* Operation(open_time, open_price, n_shares, type, stop_loss, take_profit)
\* with the dataclass defaults of the remaining fields.
Operation(open_time, open_price, n_shares, type, stop_loss, take_profit) ==
    [open_time   |-> open_time,
     open_price  |-> open_price,
     n_shares    |-> n_shares,
     type        |-> type,
     stop_loss   |-> stop_loss,
     take_profit |-> take_profit,
     status      |-> "OPEN",
     close_time  |-> None,
     close_price |-> None,
     pnl         |-> Zero]

VARIABLES
    params,             \* the params dictionary
    commission,         \* the commission argument
    initial_cash,       \* the initial_cash argument
    cash,               \* cash
    active_positions,   \* list of Operation
    closed_trades_log,  \* list of Operation
    portfolio_history,  \* list of [timestamp, value]
    timestamp,          \* index of the row being simulated (0: none yet)
    row,                \* the row being simulated
    pc,                 \* position in the body of run_backtest
    closed_at,          \* history: for each entry of closed_trades_log, the
                        \* timestamp and Close of the row that closed it
    \* run_optimization / objective (src/optimize.py)
    data_len,           \* len(train_df)
    n_splits,           \* the n_splits argument
    n_trials,           \* the n_trials argument
    study,              \* the values of the trials the study has completed
    fold_no,            \* number of folds the current trial has started
    validation_set,     \* row positions of data.iloc[test_index]
    fold_result,        \* what run_backtest returned for the fold:
                        \* len(trades_log) and the values of portfolio_df
    results,            \* the list results of objective
    opt_pc,             \* position in run_optimization / objective
    windows             \* history: the validation sets of the current trial

\* The state of run_backtest
btvars == <<params, commission, initial_cash, cash, active_positions,
            closed_trades_log, portfolio_history, timestamp, row, pc, closed_at>>

\* The state of run_optimization
optvars == <<data_len, n_splits, n_trials, study, fold_no, validation_set,
             fold_result, results, opt_pc, windows>>

vars == <<btvars, optvars>>

\* ------------------------------------------------------------------------
\* List helpers
\* ------------------------------------------------------------------------

\* Variant of list.remove(x) that leaves the list as it is (a forgotten
\* remove).
ListRemoveForgotten(l, x) == l

\* list.remove(x): the list without its first element equal to x
RECURSIVE ListRemove(_, _)
ListRemove(l, x) ==
    IF l = <<>> THEN <<>>
    ELSE IF Head(l) = x THEN Tail(l)
    ELSE <<Head(l)>> \o ListRemove(Tail(l), x)

\* ------------------------------------------------------------------------
\* 3.1  Close of open positions (lines 41-59)
\* ------------------------------------------------------------------------

\* LONG trigger of line 43-44
LongTrigger(position, current_price) ==
    \/ RGe(current_price, position.take_profit)
    \/ RLe(current_price, position.stop_loss)

\* SHORT trigger of line 51-52
ShortTrigger(position, current_price) ==
    \/ RLe(current_price, position.take_profit)
    \/ RGe(current_price, position.stop_loss)

\* cash credited at the close of a LONG (line 45)
LongProceeds(position, current_price, comm) ==
    RMul(RMul(current_price, position.n_shares), RSub(One, comm))

\* pnl stored on a closed LONG (line 47)
LongPnl(position, current_price) ==
    RMul(RSub(current_price, position.open_price), position.n_shares)

\* Variant of line 53 without the commission factor.
ShortPnlGross(position, current_price, comm) ==
    RMul(RSub(position.open_price, current_price), position.n_shares)

\* pnl of a SHORT (line 53)
ShortPnl(position, current_price, comm) ==
    RMul(RMul(RSub(position.open_price, current_price), position.n_shares),
         RSub(One, comm))

\* initial_margin of a SHORT (line 54)
InitialMargin(position, comm) ==
    RMul(RMul(position.open_price, position.n_shares), RAdd(One, comm))

\* One iteration of the loop body for `position`, on the running state
\* st = [cash, active, closed, at].  The object is mutated in place and then
\* removed from the active list; the list holds that same object, so remove()
\* finds it as the first element equal to it.
CloseOne(st, position, ts, current_price, comm) ==
    IF position.type = "LONG" /\ LongTrigger(position, current_price)
    THEN [cash   |-> RAdd(st.cash, LongProceeds(position, current_price, comm)),
          closed |-> Append(st.closed,
                            [position EXCEPT !.status = "CLOSED",
                                             !.pnl = LongPnl(position, current_price)]),
          active |-> ListRemove(st.active, position),
          at     |-> Append(st.at, [timestamp |-> ts, Close |-> current_price])]
    ELSE IF position.type = "SHORT" /\ ShortTrigger(position, current_price)
    THEN [cash   |-> RAdd(st.cash, RAdd(ShortPnl(position, current_price, comm),
                                        InitialMargin(position, comm))),
          closed |-> Append(st.closed,
                            [position EXCEPT !.status = "CLOSED",
                                             !.pnl = ShortPnl(position, current_price, comm)]),
          active |-> ListRemove(st.active, position),
          at     |-> Append(st.at, [timestamp |-> ts, Close |-> current_price])]
    ELSE st

\* Variant of line 41 that iterates over active_positions itself: after a
\* remove() the list has shifted and the next element is skipped.
RECURSIVE CloseLoopLive(_, _, _, _, _, _)
CloseLoopLive(copy, i, st, ts, current_price, comm) ==
    IF i > Len(st.active) THEN st
    ELSE CloseLoopLive(copy, i + 1,
                       CloseOne(st, st.active[i], ts, current_price, comm),
                       ts, current_price, comm)

\* for position in active_positions[:]: the loop runs over the copy `copy`
\* from index i on, whatever is removed from the list meanwhile.
RECURSIVE CloseLoop(_, _, _, _, _, _)
CloseLoop(copy, i, st, ts, current_price, comm) ==
    IF i > Len(copy) THEN st
    ELSE CloseLoop(copy, i + 1, CloseOne(st, copy[i], ts, current_price, comm),
                   ts, current_price, comm)

\* ------------------------------------------------------------------------
\* 3.2 - 3.4 and 4: values computed by the loop body and the liquidation
\* ------------------------------------------------------------------------

\* sum(p.n_shares * current_price for p in active_positions if p.type == 'LONG')
RECURSIVE LongValue(_, _)
LongValue(l, current_price) ==
    IF l = <<>> THEN Zero
    ELSE RAdd(IF Head(l).type = "LONG"
              THEN RMul(Head(l).n_shares, current_price) ELSE Zero,
              LongValue(Tail(l), current_price))

\* Variant of lines 93-96 that values a SHORT at the margin debited at its
\* open, commission included.
RECURSIVE ShortEquityWithCommission(_, _)
ShortEquityWithCommission(l, current_price) ==
    IF l = <<>> THEN Zero
    ELSE RAdd(IF Head(l).type = "SHORT"
              THEN RAdd(RMul(RMul(Head(l).open_price, Head(l).n_shares),
                             RAdd(One, commission)),
                        RMul(RSub(Head(l).open_price, current_price), Head(l).n_shares))
              ELSE Zero,
              ShortEquityWithCommission(Tail(l), current_price))

\* short_equity of lines 93-96
RECURSIVE ShortEquity(_, _)
ShortEquity(l, current_price) ==
    IF l = <<>> THEN Zero
    ELSE RAdd(IF Head(l).type = "SHORT"
              THEN RAdd(RMul(Head(l).open_price, Head(l).n_shares),
                        RMul(RSub(Head(l).open_price, current_price), Head(l).n_shares))
              ELSE Zero,
              ShortEquity(Tail(l), current_price))

\* Variant of line 70 that lets every computed quantity through.
SizeAlwaysPositive(n_shares) == TRUE

\* The condition of line 70
SizePositive(n_shares) == RGt(n_shares, Zero)

\* Variant of line 69 that sizes every entry from the initial cash.
NSharesFromInitialCash(c, pct_cash, current_price) ==
    RDiv(RMul(initial_cash, pct_cash), current_price)

\* n_shares of line 69
NShares(c, pct_cash, current_price) == RDiv(RMul(c, pct_cash), current_price)

\* Variant of lines 72 and 82 that debits the notional without commission.
EntryCostNoCommission(current_price, n_shares, comm) ==
    RMul(current_price, n_shares)

\* cost_of_long (line 72) and position_margin (line 82)
EntryCost(current_price, n_shares, comm) ==
    RMul(RMul(current_price, n_shares), RAdd(One, comm))

\* Variant of line 73 without the cash check.
OpensLongUnchecked(r, c, cost_of_long) == r.buy_signal

\* The condition of the if of line 73
OpensLong(r, c, cost_of_long) == r.buy_signal /\ RGe(c, cost_of_long)

\* Variant of line 81 written as an independent if: the SHORT entry is
\* evaluated whatever the LONG branch did.
ElifAlways(r, c, cost_of_long) == TRUE

\* Whether the elif of line 81 is evaluated: only when the if of line 73
\* was false
ElifReached(r, c, cost_of_long) == ~OpensLong(r, c, cost_of_long)

\* Variant of lines 81-83 without the cash check of line 83.
OpensShortUnchecked(r, c, position_margin) == r.sell_signal

\* The conditions of lines 81 and 83
OpensShort(r, c, position_margin) == r.sell_signal /\ RGe(c, position_margin)

\* Variant of line 64 with a strict comparison.
IsDegenerateStrict(current_equity) == RLt(current_equity, Zero)

\* The condition of line 64
IsDegenerate(current_equity) == RLe(current_equity, Zero)

\* Variant of line 65 that records nothing on a degenerate row.
DegenerateHistoryDropped(history, ts, current_equity) == history

\* portfolio_history.append of line 65
DegenerateHistory(history, ts, current_equity) ==
    Append(history, [timestamp |-> ts, value |-> current_equity])

\* the LONG of lines 75-79
NewLong(ts, current_price, n_shares, p) ==
    Operation(ts, current_price, n_shares, "LONG",
              RMul(current_price, RSub(One, p.stop_loss)),
              RMul(current_price, RAdd(One, p.take_profit)))

\* Variant of lines 85-89 that gives a SHORT the levels of a LONG.
NewShortLongLevels(ts, current_price, n_shares, p) ==
    Operation(ts, current_price, n_shares, "SHORT",
              RMul(current_price, RSub(One, p.stop_loss)),
              RMul(current_price, RAdd(One, p.take_profit)))

\* the SHORT of lines 85-89
NewShort(ts, current_price, n_shares, p) ==
    Operation(ts, current_price, n_shares, "SHORT",
              RMul(current_price, RAdd(One, p.stop_loss)),
              RMul(current_price, RSub(One, p.take_profit)))

\* Variant of lines 103-108 that credits a SHORT with its pnl only.
LiquidationCreditNoMargin(pos, last_price, comm) ==
    IF pos.type = "LONG"
    THEN RMul(RMul(last_price, pos.n_shares), RSub(One, comm))
    ELSE ShortPnl(pos, last_price, comm)

\* cash credited for one position by the final liquidation (lines 103-108)
LiquidationCredit(pos, last_price, comm) ==
    IF pos.type = "LONG"
    THEN RMul(RMul(last_price, pos.n_shares), RSub(One, comm))
    ELSE IF pos.type = "SHORT"
    THEN RAdd(ShortPnl(pos, last_price, comm), InitialMargin(pos, comm))
    ELSE Zero

\* for pos in active_positions[:]: cash += ...
RECURSIVE LiquidationLoop(_, _, _, _)
LiquidationLoop(copy, c, last_price, comm) ==
    IF copy = <<>> THEN c
    ELSE LiquidationLoop(Tail(copy),
                         RAdd(c, LiquidationCredit(Head(copy), last_price, comm)),
                         last_price, comm)

\* Variant of the returned active_positions in which the liquidation empties
\* the list.
ActiveEmptied(l) == <<>>

\* active_positions as run_backtest returns it: the liquidation loop only
\* credits cash; it neither removes a position from the list nor changes it.
ActiveAfterLiquidation(l) == l

\* closed_trades_log as run_backtest returns it
ClosedAfterLiquidation(closed, l) == closed

\* Variant of lines 110-111 that leaves the last entry as the loop wrote it.
OverwriteLastSkipped(history, c) == history

\* portfolio_history[-1]['value'] = cash (lines 110-111)
OverwriteLast(history, c) ==
    IF history # <<>>
    THEN [history EXCEPT ![Len(history)].value = c]
    ELSE history

\* ------------------------------------------------------------------------
\* Metrics and walk-forward objective (src/metrics.py, src/optimize.py)
\* ------------------------------------------------------------------------

\* The -1.0 returned by calculate_calmar_for_optimization (lines 20, 23, 29)
Sentinel == Rat(0 - 1)

\* The -1.0 appended for a fold with too few trades (optimize.py line 68)
Penalty == Rat(0 - 1)

\* The threshold of optimize.py line 67
MinTrades == 10

\* 24 * 365 of metrics.py line 25
BarsPerYear == 24 * 365

\* initial_cash and commission of the call of optimize.py line 66
FoldInitialCash == 1000000
FoldCommission == Frac(1, 800)

\* Values an equity curve handed to the metric may hold.  They are not 0:
\* pct_change and the drawdown divide by them.
CurveValues == {Rat(0 - 1), Rat(1), Rat(2)}

\* The equity curves: every sequence of at most MaxCurveLen values
Curves == UNION {[1..k -> CurveValues] : k \in 0..MaxCurveLen}

\* len(trades_log) of a fold
TradeCounts == {0, 9, 10}

\* The equity curves a fold's backtest returns to objective: a flat one, a
\* rising one, a falling one and one that falls and recovers.
FoldCurves ==
    {<<Rat(1), Rat(1)>>, <<Rat(1), Rat(2)>>, <<Rat(2), Rat(1)>>,
     <<Rat(2), Rat(1), Rat(2)>>}

\* What run_backtest returns to objective for a fold
FoldOutcomes == [n_trades : TradeCounts, portfolio : FoldCurves]

\* len(train_df) and n_splits of a study
DataLens == {2, 5, 7, 8}
SplitCounts == {2, 3}

\* portfolio_values.nunique()
NUnique(pv) == Cardinality({pv[i] : i \in DOMAIN pv})

\* portfolio_values.pct_change().dropna(): the first entry, which has no
\* predecessor, is the one dropped
PctChange(pv) ==
    [i \in 1..(Len(pv) - 1) |-> RDiv(RSub(pv[i + 1], pv[i]), pv[i])]

\* sum of a list of floats
RECURSIVE SeqSum(_)
SeqSum(l) == IF l = <<>> THEN Zero ELSE RAdd(Head(l), SeqSum(Tail(l)))

\* returns.mean(), np.mean(results)
Mean(l) == RDiv(SeqSum(l), Rat(Len(l)))

\* max of the first n entries of a non-empty list
RECURSIVE MaxUpTo(_, _)
MaxUpTo(l, n) ==
    IF n = 1 THEN l[1]
    ELSE LET m == MaxUpTo(l, n - 1)
         IN  IF RGt(l[n], m) THEN l[n] ELSE m

\* portfolio_values.cummax()
CumMax(pv) == [i \in 1..Len(pv) |-> MaxUpTo(pv, i)]

\* drawdown of metrics.py line 27
Drawdown(pv) ==
    [i \in 1..Len(pv) |->
        RDiv(RSub(CumMax(pv)[i], pv[i]), CumMax(pv)[i])]

\* Variant of line 29 with the neutral default of the full report (line 69).
CalmarRatioNeutral(annualized_return, max_drawdown) ==
    IF RGt(max_drawdown, Zero)
    THEN RDiv(annualized_return, max_drawdown)
    ELSE Zero

\* metrics.py line 29
CalmarRatio(annualized_return, max_drawdown) ==
    IF RGt(max_drawdown, Zero)
    THEN RDiv(annualized_return, max_drawdown)
    ELSE Sentinel

\* calculate_calmar_for_optimization (metrics.py lines 19-29)
CalmarForOptimization(pv) ==
    IF pv = <<>> \/ NUnique(pv) < 2 THEN Sentinel
    ELSE LET returns == PctChange(pv)
         IN  IF returns = <<>> THEN Sentinel
             ELSE CalmarRatio(RMul(Mean(returns), Rat(BarsPerYear)),
                              MaxUpTo(Drawdown(pv), Len(pv)))

\* Variant of optimize.py line 67 with the comparison off by one.
FewTradesInclusive(n) == n <= MinTrades

\* The condition of optimize.py line 67
FewTrades(n) == n < MinTrades

\* The value appended to results for a fold (optimize.py lines 67-70)
FoldScore(res) ==
    IF FewTrades(res.n_trades) THEN Penalty
    ELSE CalmarForOptimization(res.portfolio)

\* TimeSeriesSplit(n_splits).split(data): it raises ValueError when the
\* number of folds, n_splits + 1, exceeds the number of rows.
SplitRaises(n, splits) == splits + 1 > n

\* The test_size of TimeSeriesSplit: n_samples // (n_splits + 1)
TestSize(n, splits) == n \div (splits + 1)

\* Variant of optimize.py line 64 that takes the training indices of the
\* split (for train_index, _ in ...): the rows before the test window.
TrainWindow(n, splits, k) ==
    [i \in 1..(n - (splits - (k - 1)) * TestSize(n, splits)) |-> i - 1]

\* test_index of the k-th split (k = 1..n_splits), as 0-based row positions:
\* the test windows are the last n_splits blocks of test_size rows.
TestWindow(n, splits, k) ==
    [i \in 1..TestSize(n, splits) |->
        n - (splits - (k - 1)) * TestSize(n, splits) + i - 1]

\* fold_result before any fold has run
NoResult == [n_trades |-> 0, portfolio |-> <<>>]

\* The optimizer's variables in a run of run_backtest alone
OptIdle ==
    /\ data_len = 0
    /\ n_splits = 0
    /\ n_trials = 0
    /\ study = <<>>
    /\ fold_no = 0
    /\ validation_set = <<>>
    /\ fold_result = NoResult
    /\ results = <<>>
    /\ opt_pc = "idle"
    /\ windows = <<>>

\* ------------------------------------------------------------------------
\* The state machine
\* ------------------------------------------------------------------------

\* Lines 26-33: the state when the loop is entered.  df.index[0], the
\* timestamp of the first entry, is modelled as 0: calculate_indicators drops
\* the warm-up rows, so the simulated rows 1, 2, ... come after it.
Init ==
    /\ params \in ParamSets
    /\ commission = params.commission
    /\ initial_cash \in InitialCashes
    /\ cash = initial_cash
    /\ active_positions = <<>>
    /\ closed_trades_log = <<>>
    /\ portfolio_history = <<[timestamp |-> 0, value |-> initial_cash]>>
    /\ timestamp = 0
    /\ row = [Close |-> One, buy_signal |-> FALSE, sell_signal |-> FALSE]
    /\ pc = "loop"
    /\ closed_at = <<>>
    /\ OptIdle

\* Lines 36-59: the next row is taken and the open positions that hit their
\* stop-loss or take-profit at its Close are closed.
CloseStep ==
    /\ pc = "loop"
    /\ timestamp < MaxBars
    /\ \E r \in Rows :
         LET st == CloseLoop(active_positions, 1,
                             [cash |-> cash, active |-> active_positions,
                              closed |-> closed_trades_log, at |-> closed_at],
                             timestamp + 1, r.Close, commission)
         IN  /\ row' = r
             /\ timestamp' = timestamp + 1
             /\ cash' = st.cash
             /\ active_positions' = st.active
             /\ closed_trades_log' = st.closed
             /\ closed_at' = st.at
    /\ pc' = "check"
    /\ UNCHANGED <<params, commission, initial_cash, portfolio_history>>
    /\ UNCHANGED optvars

\* Lines 62-66: the solvency check.  On a degenerate row the equity is
\* recorded and the loop continues with the next row.
SolvencyCheck ==
    /\ pc = "check"
    /\ LET current_equity == RAdd(cash, LongValue(active_positions, row.Close))
       IN  IF IsDegenerate(current_equity)
           THEN /\ portfolio_history' =
                      DegenerateHistory(portfolio_history, timestamp, current_equity)
                /\ pc' = "loop"
           ELSE /\ portfolio_history' = portfolio_history
                /\ pc' = "open"
    /\ UNCHANGED <<params, commission, initial_cash, cash, active_positions,
                   closed_trades_log, timestamp, row, closed_at>>
    /\ UNCHANGED optvars

\* Lines 69-89 on the running state st = [cash, active]: the if of line 73,
\* then the elif of line 81 when it is reached.
OpenEntries(st, r, ts, p, comm) ==
    LET n_shares == NShares(st.cash, p.pct_cash, r.Close)
        cost_of_long == EntryCost(r.Close, n_shares, comm)
        position_margin == EntryCost(r.Close, n_shares, comm)
        long == IF OpensLong(r, st.cash, cost_of_long)
                THEN [cash   |-> RSub(st.cash, cost_of_long),
                      active |-> Append(st.active, NewLong(ts, r.Close, n_shares, p))]
                ELSE st
        short == IF /\ ElifReached(r, st.cash, cost_of_long)
                    /\ OpensShort(r, long.cash, position_margin)
                 THEN [cash   |-> RSub(long.cash, position_margin),
                       active |-> Append(long.active, NewShort(ts, r.Close, n_shares, p))]
                 ELSE long
    IN  IF SizePositive(n_shares) THEN short ELSE st

\* Lines 69-89: the entry of a new position.
OpenStep ==
    /\ pc = "open"
    /\ LET st == OpenEntries([cash |-> cash, active |-> active_positions],
                             row, timestamp, params, commission)
       IN  /\ cash' = st.cash
           /\ active_positions' = st.active
    /\ pc' = "value"
    /\ UNCHANGED <<params, commission, initial_cash, closed_trades_log,
                   portfolio_history, timestamp, row, closed_at>>
    /\ UNCHANGED optvars

\* Lines 92-98: the valuation of the portfolio at the row.
Valuation ==
    /\ pc = "value"
    /\ LET portfolio_value ==
               RAdd(RAdd(cash, LongValue(active_positions, row.Close)),
                    ShortEquity(active_positions, row.Close))
       IN  portfolio_history' =
               Append(portfolio_history,
                      [timestamp |-> timestamp, value |-> portfolio_value])
    /\ pc' = "loop"
    /\ UNCHANGED <<params, commission, initial_cash, cash, active_positions,
                   closed_trades_log, timestamp, row, closed_at>>
    /\ UNCHANGED optvars

\* Lines 101-115: the rows are exhausted; final liquidation and return.
\* last_price is the Close of the last row.
Liquidate ==
    /\ pc = "loop"
    /\ LET final == LiquidationLoop(active_positions, cash, row.Close, commission)
       IN  /\ cash' = final
           /\ portfolio_history' = OverwriteLast(portfolio_history, final)
    /\ active_positions' = ActiveAfterLiquidation(active_positions)
    /\ closed_trades_log' = ClosedAfterLiquidation(closed_trades_log, active_positions)
    /\ pc' = "done"
    /\ UNCHANGED <<params, commission, initial_cash, timestamp, row, closed_at>>
    /\ UNCHANGED optvars

Next ==
    \/ CloseStep
    \/ SolvencyCheck
    \/ OpenStep
    \/ Valuation
    \/ Liquidate

Spec == Init /\ [][Next]_vars

\* ------------------------------------------------------------------------
\* The state machine of run_optimization
\* ------------------------------------------------------------------------

\* The variables of run_backtest while the study is between backtests: the
\* arguments objective passes (optimize.py line 66) and the state of lines
\* 26-29.
BacktestIdle ==
    /\ params = [commission |-> FoldCommission, pct_cash |-> Frac(1, 2),
                 stop_loss |-> Frac(1, 2), take_profit |-> Frac(1, 2),
                 max_short_pct |-> Frac(1, 2)]
    /\ commission = FoldCommission
    /\ initial_cash = Rat(FoldInitialCash)
    /\ cash = Rat(FoldInitialCash)
    /\ active_positions = <<>>
    /\ closed_trades_log = <<>>
    /\ portfolio_history = <<[timestamp |-> 0, value |-> Rat(FoldInitialCash)]>>
    /\ timestamp = 0
    /\ row = [Close |-> One, buy_signal |-> FALSE, sell_signal |-> FALSE]
    /\ pc = "idle"
    /\ closed_at = <<>>

\* run_optimization(train_df, n_trials, n_splits) at optimize.py line 91
InitOpt ==
    /\ data_len \in DataLens
    /\ n_splits \in SplitCounts
    /\ n_trials \in 1..MaxTrials
    /\ study = <<>>
    /\ fold_no = 0
    /\ validation_set = <<>>
    /\ fold_result = NoResult
    /\ results = <<>>
    /\ opt_pc = "study"
    /\ windows = <<>>
    /\ BacktestIdle

\* study.optimize calls objective for the next trial (optimize.py lines
\* 92-96, 60-62).
StartTrial ==
    /\ opt_pc = "study"
    /\ Len(study) < n_trials
    /\ results' = <<>>
    /\ fold_no' = 0
    /\ windows' = <<>>
    /\ validation_set' = <<>>
    /\ fold_result' = NoResult
    /\ opt_pc' = "split"
    /\ UNCHANGED <<data_len, n_splits, n_trials, study>>
    /\ UNCHANGED btvars

\* tscv.split(data) raises inside objective (optimize.py line 64).
SplitFails ==
    /\ opt_pc = "split"
    /\ SplitRaises(data_len, n_splits)
    /\ opt_pc' = "raised"
    /\ UNCHANGED <<data_len, n_splits, n_trials, study, fold_no, validation_set,
                   fold_result, results, windows>>
    /\ UNCHANGED btvars

\* The exception leaves objective; study.optimize is called without catch
\* (optimize.py lines 92-96), so it leaves run_optimization too: the trial
\* gets no value and no further trial is run.
Propagate ==
    /\ opt_pc = "raised"
    /\ opt_pc' = "aborted"
    /\ UNCHANGED <<data_len, n_splits, n_trials, study, fold_no, validation_set,
                   fold_result, results, windows>>
    /\ UNCHANGED btvars

\* optimize.py lines 64-66: the next fold's rows are selected and
\* run_backtest returns its trades_log and portfolio_df.
RunFold ==
    /\ opt_pc = "split"
    /\ ~SplitRaises(data_len, n_splits)
    /\ fold_no < n_splits
    /\ fold_no' = fold_no + 1
    /\ validation_set' = TestWindow(data_len, n_splits, fold_no + 1)
    /\ windows' = Append(windows, validation_set')
    /\ fold_result' \in FoldOutcomes
    /\ opt_pc' = "ran"
    /\ UNCHANGED <<data_len, n_splits, n_trials, study, results>>
    /\ UNCHANGED btvars

\* optimize.py lines 67-70: the fold's score is appended to results.
ScoreFold ==
    /\ opt_pc = "ran"
    /\ results' = Append(results, FoldScore(fold_result))
    /\ opt_pc' = "split"
    /\ UNCHANGED <<data_len, n_splits, n_trials, study, fold_no, validation_set,
                   fold_result, windows>>
    /\ UNCHANGED btvars

\* optimize.py line 72: objective returns np.mean(results) and the study
\* records it as the trial's value.
FinishTrial ==
    /\ opt_pc = "split"
    /\ ~SplitRaises(data_len, n_splits)
    /\ fold_no = n_splits
    /\ study' = Append(study, Mean(results))
    /\ opt_pc' = "study"
    /\ UNCHANGED <<data_len, n_splits, n_trials, fold_no, validation_set,
                   fold_result, results, windows>>
    /\ UNCHANGED btvars

\* optimize.py line 97: n_trials trials are done, the study is returned.
StudyDone ==
    /\ opt_pc = "study"
    /\ Len(study) = n_trials
    /\ opt_pc' = "finished"
    /\ UNCHANGED <<data_len, n_splits, n_trials, study, fold_no, validation_set,
                   fold_result, results, windows>>
    /\ UNCHANGED btvars

NextOpt ==
    \/ StartTrial
    \/ SplitFails
    \/ Propagate
    \/ RunFold
    \/ ScoreFold
    \/ FinishTrial
    \/ StudyDone

SpecOpt == InitOpt /\ [][NextOpt]_vars

\* ------------------------------------------------------------------------
\* calculate_calmar_for_optimization applied to an arbitrary curve
\* ------------------------------------------------------------------------

\* portfolio_values is any curve; it is held in fold_result.portfolio
InitMetric ==
    /\ fold_result \in [n_trades : {0}, portfolio : Curves]
    /\ opt_pc = "metric"
    /\ data_len = 0
    /\ n_splits = 0
    /\ n_trials = 0
    /\ study = <<>>
    /\ fold_no = 0
    /\ validation_set = <<>>
    /\ results = <<>>
    /\ windows = <<>>
    /\ BacktestIdle

\* metrics.py lines 19-29; the returned value is held in results
ComputeCalmar ==
    /\ opt_pc = "metric"
    /\ results' = <<CalmarForOptimization(fold_result.portfolio)>>
    /\ opt_pc' = "returned"
    /\ UNCHANGED <<data_len, n_splits, n_trials, study, fold_no, validation_set,
                   fold_result, windows>>
    /\ UNCHANGED btvars

NextMetric == ComputeCalmar

SpecMetric == InitMetric /\ [][NextMetric]_vars

\* ------------------------------------------------------------------------
\* The walk-forward study with the backtest of every fold run in full
\* ------------------------------------------------------------------------

\* len(train_df) of a study whose folds are simulated row by row
WalkDataLens == {3, 6}

\* n_splits of such a study
WalkSplitCounts == {2}

\* Dictionaries get_params_from_trial returns, inside its ranges
\* (optimize.py lines 35-39); commission is the literal of line 66.
TrialParamSets ==
    [commission    : {FoldCommission},
     pct_cash      : {Frac(1, 10), Frac(1, 5)},
     stop_loss     : {Frac(1, 8)},
     take_profit   : {Frac(1, 8)},
     max_short_pct : {Frac(1, 2)}]

\* Variant of lines 27-28 in which the list outlives the call (a list held
\* outside the function body).
CarriedList(l) == l

\* active_positions = [] and closed_trades_log = [] of lines 27-28: a new
\* empty list at every call, whatever the previous call left.
FreshList(l) == <<>>

\* portfolio_df['value'] as run_backtest returns it (line 114)
PortfolioValues(history) == [i \in 1..Len(history) |-> history[i].value]

\* run_optimization(train_df, n_trials, n_splits) at optimize.py line 91
InitWalk ==
    /\ data_len \in WalkDataLens
    /\ n_splits \in WalkSplitCounts
    /\ n_trials \in 1..MaxTrials
    /\ study = <<>>
    /\ fold_no = 0
    /\ validation_set = <<>>
    /\ fold_result = NoResult
    /\ results = <<>>
    /\ opt_pc = "study"
    /\ windows = <<>>
    /\ BacktestIdle

\* study.optimize calls objective for the next trial (optimize.py lines
\* 92-96, 60-62); params holds the dictionary of line 62.
WalkStartTrial ==
    /\ opt_pc = "study"
    /\ Len(study) < n_trials
    /\ params' \in TrialParamSets
    /\ results' = <<>>
    /\ fold_no' = 0
    /\ windows' = <<>>
    /\ validation_set' = <<>>
    /\ fold_result' = NoResult
    /\ opt_pc' = "split"
    /\ UNCHANGED <<data_len, n_splits, n_trials, study>>
    /\ UNCHANGED <<commission, initial_cash, cash, active_positions,
                   closed_trades_log, portfolio_history, timestamp, row, pc,
                   closed_at>>

\* optimize.py lines 64-66 and backtesting.py lines 26-33: the next fold's
\* rows are selected and run_backtest is entered with them, 1_000_000,
\* 0.00125 and params.
BeginFold ==
    /\ opt_pc = "split"
    /\ ~SplitRaises(data_len, n_splits)
    /\ fold_no < n_splits
    /\ fold_no' = fold_no + 1
    /\ validation_set' = TestWindow(data_len, n_splits, fold_no + 1)
    /\ windows' = Append(windows, validation_set')
    /\ opt_pc' = "backtest"
    /\ commission' = FoldCommission
    /\ initial_cash' = Rat(FoldInitialCash)
    /\ cash' = initial_cash'
    /\ active_positions' = FreshList(active_positions)
    /\ closed_trades_log' = FreshList(closed_trades_log)
    /\ closed_at' = <<>>
    /\ portfolio_history' = <<[timestamp |-> 0, value |-> initial_cash']>>
    /\ timestamp' = 0
    /\ row' = [Close |-> One, buy_signal |-> FALSE, sell_signal |-> FALSE]
    /\ pc' = "loop"
    /\ UNCHANGED <<params, data_len, n_splits, n_trials, study, fold_result,
                   results>>

\* Lines 36-59 inside a fold: df_with_signals has at most the rows of the
\* validation set (calculate_indicators drops rows, it adds none).
FoldCloseStep ==
    /\ opt_pc = "backtest"
    /\ timestamp < Len(validation_set)
    /\ CloseStep

\* backtesting.py lines 114-115 and optimize.py line 66: run_backtest
\* returns; objective keeps trades_log and portfolio_df.
ReturnFold ==
    /\ opt_pc = "backtest"
    /\ pc = "done"
    /\ fold_result' = [n_trades  |-> Len(closed_trades_log),
                       portfolio |-> PortfolioValues(portfolio_history)]
    /\ opt_pc' = "ran"
    /\ UNCHANGED <<data_len, n_splits, n_trials, study, fold_no, validation_set,
                   results, windows>>
    /\ UNCHANGED btvars

NextWalk ==
    \/ WalkStartTrial
    \/ BeginFold
    \/ FoldCloseStep
    \/ SolvencyCheck
    \/ OpenStep
    \/ Valuation
    \/ Liquidate
    \/ ReturnFold
    \/ ScoreFold
    \/ FinishTrial
    \/ StudyDone

SpecWalk == InitWalk /\ [][NextWalk]_vars

\* ------------------------------------------------------------------------
\* Properties
\* ------------------------------------------------------------------------

\* The set of elements of a list
Range(l) == {l[i] : i \in DOMAIN l}

\* Every Operation object the run holds; an object is identified by its
\* open_time (at most one is created per row).
Objects == Range(active_positions) \cup Range(closed_trades_log)

\* len([p for p in l if p.type == type])
CountType(l, type) == Cardinality({i \in DOMAIN l : l[i].type = type})

\* C1 (state part): no position is in both active_positions and
\* closed_trades_log, and no position appears twice in closed_trades_log.
C1_Disjoint ==
    /\ \A i \in DOMAIN active_positions : \A j \in DOMAIN closed_trades_log :
          active_positions[i].open_time # closed_trades_log[j].open_time
    /\ \A i, j \in DOMAIN closed_trades_log :
          i # j => closed_trades_log[i].open_time # closed_trades_log[j].open_time

\* C1 (step part): a position whose status is CLOSED keeps the status CLOSED
\* in every later state (it is never reopened, so it is closed at most once),
\* and a position in the log stays at its place in the log.
C1_OneWay ==
    /\ \A p \in Objects : p.status = "CLOSED" =>
          /\ \E q \in Objects' : q.open_time = p.open_time
          /\ \A q \in Objects' : q.open_time = p.open_time => q.status = "CLOSED"
    /\ \A j \in DOMAIN closed_trades_log :
          /\ j \in DOMAIN closed_trades_log'
          /\ closed_trades_log'[j] = closed_trades_log[j]

\* C1: in every reachable state no position is in both active_positions and
\* closed_trades_log, every position appears at most once in
\* closed_trades_log, and a status goes from OPEN to CLOSED at most once and
\* never back to OPEN.
C1_StatusOneWay == []C1_Disjoint /\ [][C1_OneWay]_vars

\* C1 witness: a position has been closed while another one is still active.
C1_Witness ==
    /\ closed_trades_log # <<>>
    /\ active_positions # <<>>
    /\ \A p \in Range(closed_trades_log) : p.status = "CLOSED"

\* C2 as stated: once run_backtest returns, the open_positions list is empty
\* and every position created is CLOSED and in the closed-trade log.
C2_AllClosedAtReturn ==
    pc = "done" =>
        /\ active_positions = <<>>
        /\ \A p \in Objects : p.status = "CLOSED"

\* C2 amended: the liquidation after the last row credits cash only; the
\* positions still active are returned in open_positions as they were, with
\* status OPEN, and the closed-trade log is returned unchanged.
C2_LiquidationKeepsOpen ==
    [][pc' = "done" =>
         /\ active_positions' = active_positions
         /\ closed_trades_log' = closed_trades_log
         /\ \A p \in Range(active_positions') : p.status = "OPEN"]_vars

\* C2 witness: run_backtest has returned with a position that was active
\* after the last row.
C2_Witness ==
    /\ pc = "done"
    /\ active_positions # <<>>
    /\ closed_trades_log # <<>>

\* The credit the final liquidation owes for one position: P_last * quantity
\* * (1 - commission) for a LONG, pnl + initial_margin for a SHORT.
C3_Credit(p, last_price) ==
    IF p.type = "LONG"
    THEN RMul(last_price, RMul(p.n_shares, RSub(One, commission)))
    ELSE RAdd(RMul(RSub(p.open_price, last_price),
                   RMul(p.n_shares, RSub(One, commission))),
              RMul(p.open_price, RMul(p.n_shares, RAdd(One, commission))))

\* The credits of the positions l[1..n]
RECURSIVE C3_Credits(_, _, _)
C3_Credits(l, n, last_price) ==
    IF n = 0 THEN Zero
    ELSE RAdd(C3_Credits(l, n - 1, last_price), C3_Credit(l[n], last_price))

\* C3: the last value of the returned equity curve equals the returned final
\* cash, and the final cash is the cash after the last row plus the credit of
\* every remaining LONG and SHORT.
C3_LastEquityIsFinalCash ==
    /\ [](pc = "done" =>
            portfolio_history[Len(portfolio_history)].value = cash)
    /\ [][pc' = "done" =>
            cash' = RAdd(cash, C3_Credits(active_positions, Len(active_positions),
                                          row.Close))]_vars

\* C3 witness: run_backtest has returned after liquidating a LONG and a SHORT
\* under a commission, at a price other than the SHORT's open price.
C3_Witness ==
    /\ pc = "done"
    /\ commission # Zero
    /\ CountType(active_positions, "LONG") > 0
    /\ \E p \in Range(active_positions) :
          p.type = "SHORT" /\ p.open_price # row.Close
    /\ portfolio_history[Len(portfolio_history)].value = cash

\* C4: every SHORT entry that is accepted satisfies, when it is accepted,
\* (open shorts + 1) / (open longs + open shorts + 1) <= max_short_pct.
C4_ShortRatioRespected ==
    [][(/\ pc = "open"
        /\ Len(active_positions') = Len(active_positions) + 1
        /\ active_positions'[Len(active_positions')].type = "SHORT")
       => RLe(Frac(CountType(active_positions, "SHORT") + 1,
                   Len(active_positions) + 1),
              params.max_short_pct)]_vars

\* C5: the equity curve has one entry per simulated row plus the initial
\* one, at the loop head after every row and at the return.
C5_CurveLength ==
    /\ pc \in {"loop", "done"} => Len(portfolio_history) = timestamp + 1
    /\ pc \in {"check", "open", "value"} => Len(portfolio_history) = timestamp

\* C5 witness: run_backtest has returned after rows of which one took the
\* degenerate-equity branch and one opened a position.
C5_Witness ==
    /\ pc = "done"
    /\ timestamp >= 2
    /\ Len(portfolio_history) = timestamp + 1
    /\ \E i \in 2..(Len(portfolio_history) - 1) :
          RLe(portfolio_history[i].value, Zero)
    /\ Objects # {}
\* The positions appended to active_positions by the step
Opened == {active_positions'[i] :
             i \in (Len(active_positions) + 1)..Len(active_positions')}

\* C6: a LONG or SHORT is opened only if cash at that moment is at least
\* P * quantity * (1 + commission), so cash is not negative after the open.
C6_EntryCovered ==
    [][pc = "open" =>
         \A p \in Opened :
            /\ RGe(cash, RMul(row.Close,
                              RMul(p.n_shares, RAdd(One, commission))))
            /\ RGe(cash', Zero)]_vars

\* C6 witness: a position has just been opened under a commission and cash
\* is not negative.
C6_Witness ==
    /\ pc = "value"
    /\ commission # Zero
    /\ \E p \in Range(active_positions) : p.open_time = timestamp
    /\ RGe(cash, Zero)

\* C7: a row opens at most one position, also when buy_signal and
\* sell_signal are both true, and no SHORT is opened on a row that opened a
\* LONG.
C7_OneEntryPerBar ==
    [][pc = "open" =>
         /\ Len(active_positions') <= Len(active_positions) + 1
         /\ Len(active_positions') >= Len(active_positions)
         /\ ~(\E p, q \in Opened : p.type = "LONG" /\ q.type = "SHORT")
         /\ (row.buy_signal /\ row.sell_signal) =>
               \A p \in Opened : p.type = "LONG"]_vars

\* C7 witness: on a row with both signals true a LONG, and only it, has been
\* opened.
C7_Witness ==
    /\ pc = "value"
    /\ row.buy_signal /\ row.sell_signal
    /\ Cardinality({i \in DOMAIN active_positions :
                       active_positions[i].open_time = timestamp}) = 1
    /\ \A p \in Range(active_positions) :
          p.open_time = timestamp => p.type = "LONG"

\* cash + sum of LONG mark-to-market at the current row
C8_Equity ==
    LET longs == {i \in DOMAIN active_positions : active_positions[i].type = "LONG"}
        RECURSIVE Total(_)
        Total(S) == IF S = {} THEN Zero
                    ELSE LET i == CHOOSE x \in S : TRUE
                         IN  RAdd(RMul(active_positions[i].n_shares, row.Close),
                                  Total(S \ {i}))
    IN  RAdd(cash, Total(longs))

\* C8: on a row where cash + LONG mark-to-market is <= 0 that value is
\* recorded as the row's equity, no position is opened, and the run is back
\* at the loop head, where the next row is processed like any other.
C8_DegenerateBar ==
    [][(pc = "check" /\ RLe(C8_Equity, Zero)) =>
         /\ portfolio_history' =
               Append(portfolio_history,
                      [timestamp |-> timestamp, value |-> C8_Equity])
         /\ active_positions' = active_positions
         /\ cash' = cash
         /\ pc' = "loop"]_vars

\* C8 witness: after a row that took the degenerate branch, a later row has
\* gone through close, solvency check and entry, and opened a position.
C8_Witness ==
    /\ pc = "value"
    /\ \E i \in 2..Len(portfolio_history) : RLe(portfolio_history[i].value, Zero)
    /\ \E p \in Range(active_positions) : p.open_time = timestamp

\* The stop-loss / take-profit trigger of a position at price P
C9_Hit(p, P) ==
    IF p.type = "LONG"
    THEN RGe(P, p.take_profit) \/ RLe(P, p.stop_loss)
    ELSE RLe(P, p.take_profit) \/ RGe(P, p.stop_loss)

\* C9: a position active at the start of a row is closed on that row if and
\* only if its trigger holds at the row's Close, and after the close step no
\* active position satisfies its trigger.
C9_ClosedIffTriggered ==
    /\ [](pc = "check" =>
            \A p \in Range(active_positions) : ~C9_Hit(p, row.Close))
    /\ [][pc = "loop" /\ pc' = "check" =>
            \A p \in Range(active_positions) :
               /\ C9_Hit(p, row'.Close) <=>
                     (\E q \in Range(closed_trades_log') \ Range(closed_trades_log) :
                         q.open_time = p.open_time)
               /\ ~C9_Hit(p, row'.Close) <=> (p \in Range(active_positions'))]_vars

\* C9 witness: two positions have been closed on the same row.
C9_Witness ==
    /\ pc = "check"
    /\ Cardinality({j \in DOMAIN closed_at : closed_at[j].timestamp = timestamp}) >= 2

\* C10: every position in the closed-trade log has pnl = (close_price -
\* open_price) * quantity if LONG and (open_price - close_price) * quantity *
\* (1 - commission) if SHORT, close_price being the Close of the row that
\* closed it.
C10_StoredPnl ==
    /\ Len(closed_at) = Len(closed_trades_log)
    /\ \A j \in DOMAIN closed_trades_log :
          LET p == closed_trades_log[j]
              close_price == closed_at[j].Close
          IN  IF p.type = "LONG"
              THEN p.pnl = RMul(RSub(close_price, p.open_price), p.n_shares)
              ELSE p.pnl = RMul(RSub(p.open_price, close_price),
                                RMul(p.n_shares, RSub(One, commission)))

\* C10 witness: a LONG and a SHORT have been closed under a commission, with
\* a pnl other than 0.
C10_Witness ==
    /\ commission # Zero
    /\ \E p, q \in Range(closed_trades_log) :
          /\ p.type = "LONG" /\ p.pnl # Zero
          /\ q.type = "SHORT" /\ q.pnl # Zero
\* C11: every position with status CLOSED has close_time and close_price
\* set to the timestamp and the Close of the row that closed it.
C11_CloseFieldsSet ==
    \A j \in DOMAIN closed_trades_log :
        LET p == closed_trades_log[j]
        IN  p.status = "CLOSED" =>
               /\ p.close_time # None
               /\ p.close_price # None
               /\ p.close_time = closed_at[j].timestamp
               /\ p.close_price = closed_at[j].Close

\* Sum of f[i] over the indices i in S
RECURSIVE SumOver(_, _)
SumOver(f, S) ==
    IF S = {} THEN Zero
    ELSE LET i == CHOOSE x \in S : TRUE
         IN  RAdd(f[i], SumOver(f, S \ {i}))

\* Gross pnl of the closed trade j minus commission on its entry and exit
\* notional: LONG (P - O)*q, SHORT (O - P)*q, minus commission*(O*q + P*q).
C12_SymmetricNet(j) ==
    LET p == closed_trades_log[j]
        P == closed_at[j].Close
        gross == IF p.type = "LONG"
                 THEN RMul(RSub(P, p.open_price), p.n_shares)
                 ELSE RMul(RSub(p.open_price, P), p.n_shares)
    IN  RSub(gross,
             RMul(commission,
                  RAdd(RMul(p.open_price, p.n_shares), RMul(P, p.n_shares))))

\* C12: the net cash change of every position from its open to its close is
\* its gross pnl minus commission * (O*q + P*q), for LONG and SHORT alike;
\* so, whenever every position opened so far has been closed, cash differs
\* from initial_cash by the sum of these amounts.
C12_CommissionSymmetric ==
    active_positions = <<>> =>
        RSub(cash, initial_cash) =
            SumOver([j \in DOMAIN closed_trades_log |-> C12_SymmetricNet(j)],
                    DOMAIN closed_trades_log)

\* cash + sum over LONGs of q*P + sum over SHORTs of (margin(p) + (O - P)*q)
C13_Equity(margin(_)) ==
    LET value(p) ==
            IF p.type = "LONG" THEN RMul(p.n_shares, row.Close)
            ELSE RAdd(margin(p),
                      RMul(RSub(p.open_price, row.Close), p.n_shares))
    IN  RAdd(cash,
             SumOver([i \in DOMAIN active_positions |-> value(active_positions[i])],
                     DOMAIN active_positions))

\* The amount debited at the open of a SHORT: O*q*(1 + commission)
C13_DebitedMargin(p) ==
    RMul(RMul(p.open_price, p.n_shares), RAdd(One, commission))

\* The notional of a SHORT at its open: O*q
C13_Notional(p) == RMul(p.open_price, p.n_shares)

\* C13 as stated: on a non-degenerate row the recorded equity counts each
\* SHORT with the margin debited at its open, O*q*(1 + commission), plus
\* (O - P)*q.
C13_EquityWithDebitedMargin ==
    [][pc = "value" =>
         portfolio_history'[Len(portfolio_history')].value =
             C13_Equity(C13_DebitedMargin)]_vars

\* C13 amended: on a non-degenerate row the recorded equity is cash + sum
\* over LONGs of q*P + sum over SHORTs of (O*q + (O - P)*q): a SHORT is
\* counted with its notional at open, without the entry commission.
C13_EquityWithNotional ==
    [][pc = "value" =>
         /\ Len(portfolio_history') = Len(portfolio_history) + 1
         /\ portfolio_history'[Len(portfolio_history')] =
               [timestamp |-> timestamp, value |-> C13_Equity(C13_Notional)]]_vars

\* C13 witness: the equity of a row has been recorded with a LONG and a
\* SHORT active, under a commission, at a price other than the SHORT's open
\* price.
C13_Witness ==
    /\ pc = "loop"
    /\ commission # Zero
    /\ CountType(active_positions, "LONG") > 0
    /\ \E p \in Range(active_positions) :
          p.type = "SHORT" /\ p.open_price # row.Close
    /\ portfolio_history[Len(portfolio_history)].value = C13_Equity(C13_Notional)

\* C14: every position ever created has a quantity greater than 0.
C14_QuantityPositive ==
    \A p \in Objects : RGt(p.n_shares, Zero)

\* C14 witness: a row with buy_signal reached the entry step with cash at 0
\* and opened nothing, while an earlier position exists.
C14_Witness ==
    /\ pc = "value"
    /\ row.buy_signal
    /\ RLe(cash, Zero)
    /\ Objects # {}
    /\ \A p \in Objects : p.open_time # timestamp /\ RGt(p.n_shares, Zero)

\* C16: a fold whose backtest closed fewer than 10 trades scores exactly
\* -1.0 whatever its equity curve; a fold with 10 or more closed trades scores
\* the fitness-only Calmar value of its equity curve.
C16_FoldScore ==
    (opt_pc = "split" /\ fold_no >= 1) =>
        /\ Len(results) = fold_no
        /\ results[fold_no] =
              IF fold_result.n_trades < 10 THEN Rat(0 - 1)
              ELSE CalmarForOptimization(fold_result.portfolio)

\* C16 witness: a fold with 9 trades, whose curve has a Calmar value other
\* than -1.0, has been scored -1.0 after a fold that got its Calmar value.
C16_Witness ==
    /\ opt_pc = "split"
    /\ fold_no >= 2
    /\ fold_result.n_trades = 9
    /\ CalmarForOptimization(fold_result.portfolio) # Rat(0 - 1)
    /\ results[fold_no] = Rat(0 - 1)
    /\ results[fold_no - 1] # Rat(0 - 1)

\* C17: when the evaluation of a trial raises, the trial is scored -1.0 and
\* the study goes on with the remaining trials.
C17_FailureCaught ==
    [][opt_pc = "raised" =>
         /\ study' = Append(study, Rat(0 - 1))
         /\ opt_pc' = "study"]_vars

\* What C18 gives for a curve pv: -1.0 when it is empty, has fewer than 2
\* distinct values, or its maximum drawdown is not greater than 0; otherwise
\* annualized_return / max_drawdown.
C18_Expected(pv) ==
    IF Len(pv) = 0 \/ (\A i, j \in DOMAIN pv : pv[i] = pv[j]) THEN Rat(0 - 1)
    ELSE LET n == Len(pv)
             peak(i) == CHOOSE m \in {pv[j] : j \in 1..i} :
                            \A j \in 1..i : RLe(pv[j], m)
             dd(i) == RDiv(RSub(peak(i), pv[i]), peak(i))
             max_drawdown == CHOOSE d \in {dd(i) : i \in 1..n} :
                                \A i \in 1..n : RLe(dd(i), d)
             ret == [i \in 2..n |-> RDiv(RSub(pv[i], pv[i - 1]), pv[i - 1])]
             annualized_return ==
                 RMul(RDiv(SumOver(ret, 2..n), Rat(n - 1)), Rat(24 * 365))
         IN  IF RLe(max_drawdown, Zero) THEN Rat(0 - 1)
             ELSE RDiv(annualized_return, max_drawdown)

\* C18: calculate_calmar_for_optimization returns -1.0 for an empty curve, a
\* curve with fewer than 2 distinct values and a curve whose maximum drawdown
\* is not greater than 0, and annualized_return / max_drawdown otherwise.
C18_CalmarSentinel ==
    opt_pc = "returned" =>
        results = <<C18_Expected(fold_result.portfolio)>>

\* C18 witness: the metric has returned a ratio other than -1.0 for a curve
\* that falls below its peak and recovers.
C18_Witness ==
    /\ opt_pc = "returned"
    /\ Len(fold_result.portfolio) >= 3
    /\ results # <<Rat(0 - 1)>>
    /\ RGt(results[1], Zero)

\* C19: the validation sets of one trial are n_splits windows of rows of the
\* data, each handed to run_backtest as its fold's data, and every row of a
\* later window comes after every row of an earlier one.
C19_FoldsSequential ==
    /\ opt_pc \in {"split", "ran", "study", "finished"} =>
          /\ Len(windows) = fold_no
          /\ fold_no <= n_splits
    /\ (opt_pc \in {"study", "finished"} /\ study # <<>>) =>
          Len(windows) = n_splits
    /\ opt_pc = "ran" => validation_set = windows[fold_no]
    /\ \A k \in DOMAIN windows :
          /\ windows[k] # <<>>
          /\ \A i \in DOMAIN windows[k] :
                windows[k][i] >= 0 /\ windows[k][i] < data_len
    /\ \A k, l \in DOMAIN windows :
          k < l => \A i \in DOMAIN windows[k] : \A j \in DOMAIN windows[l] :
                      windows[k][i] < windows[l][j]

\* C19 witness: a trial has evaluated three folds of two rows each.
C19_Witness ==
    /\ opt_pc = "study"
    /\ Len(windows) = 3
    /\ \A k \in DOMAIN windows : Len(windows[k]) = 2

\* C20: with commission 0, when every position is exited at its entry price
\* (as in a run whose Close is constant), the final cash equals the initial
\* cash.
C20_ZeroCommissionRoundTrip ==
    (/\ pc = "done"
     /\ commission = Zero
     /\ \A p \in Range(active_positions) : p.open_price = row.Close
     /\ \A j \in DOMAIN closed_trades_log :
           closed_trades_log[j].open_price = closed_at[j].Close)
    => cash = initial_cash

\* C20 witness: a run with commission 0 has returned after liquidating a
\* LONG and a SHORT at their entry price.
C20_Witness ==
    /\ pc = "done"
    /\ commission = Zero
    /\ CountType(active_positions, "LONG") > 0
    /\ CountType(active_positions, "SHORT") > 0
    /\ \A p \in Range(active_positions) : p.open_price = row.Close
    /\ cash = initial_cash

\* The cash credited for the positions active at the loop head whose trigger
\* holds at the Close of the row the step takes: P*q*(1 - commission) for a
\* LONG, (O - P)*q*(1 - commission) + O*q*(1 + commission) for a SHORT.
C21_Proceeds ==
    SumOver([i \in DOMAIN active_positions |->
                LET p == active_positions[i]
                    P == row'.Close
                    hit == IF p.type = "LONG"
                           THEN RGe(P, p.take_profit) \/ RLe(P, p.stop_loss)
                           ELSE RLe(P, p.take_profit) \/ RGe(P, p.stop_loss)
                    credit == IF p.type = "LONG"
                              THEN RMul(P, RMul(p.n_shares, RSub(One, commission)))
                              ELSE RAdd(RMul(RSub(p.open_price, P),
                                             RMul(p.n_shares, RSub(One, commission))),
                                        RMul(p.open_price,
                                             RMul(p.n_shares, RAdd(One, commission))))
                IN  IF hit THEN credit ELSE Zero],
            DOMAIN active_positions)

\* C21: within a row the closes come first: the close step adds to cash the
\* proceeds of every position it closes, the solvency check leaves cash as
\* the close step left it, and the quantity and the affordability check of
\* an entry are computed from that cash, (cash * pct_cash) / P, at every row.
C21_CloseBeforeSizing ==
    /\ [][(pc = "loop" /\ pc' = "check") =>
            cash' = RAdd(cash, C21_Proceeds)]_vars
    /\ [][pc = "check" =>
            /\ cash' = cash
            /\ active_positions' = active_positions
            /\ pc' \in {"open", "loop"}]_vars
    /\ [][pc = "open" =>
            /\ pc' = "value"
            /\ \A p \in Opened :
                  /\ p.open_time = timestamp
                  /\ p.n_shares = RDiv(RMul(cash, params.pct_cash), row.Close)
                  /\ RGe(cash, RMul(RMul(row.Close, p.n_shares),
                                    RAdd(One, commission)))]_vars

\* C21 witness: a row has closed a position and then opened one, whose
\* quantity is the pct_cash fraction of the cash including the proceeds and
\* differs from the quantity the initial cash would have given.
C21_Witness ==
    /\ pc = "value"
    /\ \E j \in DOMAIN closed_at : closed_at[j].timestamp = timestamp
    /\ \E p \in Range(active_positions) :
          /\ p.open_time = timestamp
          /\ p.n_shares =
                RDiv(RMul(RAdd(cash, RMul(RMul(row.Close, p.n_shares),
                                          RAdd(One, commission))),
                          params.pct_cash),
                     row.Close)
          /\ p.n_shares # RDiv(RMul(initial_cash, params.pct_cash), row.Close)

C23_Fixed(p) ==
    <<p.open_time, p.open_price, p.n_shares, p.type, p.stop_loss, p.take_profit>>

\* The levels of a position created at price P with the offsets sl and tp:
\* LONG  stop_loss = P*(1 - sl), take_profit = P*(1 + tp);
\* SHORT stop_loss = P*(1 + sl), take_profit = P*(1 - tp).
C23_Levels(p, sl, tp) ==
    IF p.type = "LONG"
    THEN /\ p.stop_loss = RMul(p.open_price, RSub(One, sl))
         /\ p.take_profit = RMul(p.open_price, RAdd(One, tp))
    ELSE /\ p.type = "SHORT"
         /\ p.stop_loss = RMul(p.open_price, RAdd(One, sl))
         /\ p.take_profit = RMul(p.open_price, RSub(One, tp))

\* C23: a position is created with open_time and open_price of the row that
\* opens it and with the levels above, and no step changes its open_time,
\* open_price, quantity, side, stop_loss or take_profit afterwards.
C23_FieldsFixed ==
    /\ [](\A p \in Objects : C23_Levels(p, params.stop_loss, params.take_profit))
    /\ [][pc = "open" =>
            \A p \in Opened :
               /\ p.open_time = timestamp
               /\ p.open_price = row.Close]_vars
    /\ [][\A p \in Objects :
            /\ \E q \in Objects' : q.open_time = p.open_time
            /\ \A q \in Objects' :
                  q.open_time = p.open_time => C23_Fixed(q) = C23_Fixed(p)]_vars

\* C23 witness: a LONG and a SHORT created at different rows have been
\* closed, at a Close other than their open price, with their levels as set
\* at creation.
C23_Witness ==
    \E p, q \in Range(closed_trades_log) :
        /\ p.type = "LONG" /\ q.type = "SHORT"
        /\ p.open_time # q.open_time
        /\ p.status = "CLOSED" /\ q.status = "CLOSED"
        /\ p.open_price # row.Close
        /\ C23_Levels(p, params.stop_loss, params.take_profit)
        /\ C23_Levels(q, params.stop_loss, params.take_profit)

\* C24: a candidate with 10 or more closed trades in every fold (none of its
\* folds got the penalty) never gets an average score below -1.0, the score
\* of a candidate whose folds are all inactive.
C24_PenaltyIsFloor ==
    (/\ opt_pc = "split"
     /\ fold_no = n_splits
     /\ Len(results) = n_splits
     /\ fold_result.n_trades >= 10
     /\ \A k \in DOMAIN results : results[k] # Rat(0 - 1))
    => RGe(Mean(results), Rat(0 - 1))

\* Equity of cash c and positions l at the Close P of the current row: c
\* plus q*P for every LONG plus O*q + (O - P)*q for every SHORT.
C25_Equity(c, l) ==
    RAdd(c,
         SumOver([i \in DOMAIN l |->
                     IF l[i].type = "LONG"
                     THEN RMul(l[i].n_shares, row.Close)
                     ELSE RAdd(RMul(l[i].open_price, l[i].n_shares),
                               RMul(RSub(l[i].open_price, row.Close),
                                    l[i].n_shares))],
                 DOMAIN l))

\* C25: on a row where a LONG or a SHORT is opened, the open lowers the
\* equity by exactly P*quantity*commission, and the equity recorded for the
\* row is the equity after the open.
C25_OpenCostsCommission ==
    /\ [][pc = "open" =>
            /\ \A p \in Opened :
                  C25_Equity(cash', active_positions') =
                      RSub(C25_Equity(cash, active_positions),
                           RMul(RMul(row.Close, p.n_shares), commission))
            /\ Opened = {} =>
                  C25_Equity(cash', active_positions') =
                      C25_Equity(cash, active_positions)]_vars
    /\ [][pc = "value" =>
            /\ portfolio_history'[Len(portfolio_history')].value =
                  C25_Equity(cash, active_positions)
            /\ cash' = cash
            /\ active_positions' = active_positions]_vars

\* C25 witness: the equity of a row that opened a SHORT under a commission,
\* with a LONG opened at an earlier price still active, has been recorded.
C25_Witness ==
    /\ pc = "loop"
    /\ commission # Zero
    /\ \E p, q \in Range(active_positions) :
          /\ p.type = "SHORT" /\ p.open_time = timestamp
          /\ q.type = "LONG" /\ q.open_time < timestamp
          /\ q.open_price # row.Close
    /\ portfolio_history[Len(portfolio_history)] =
          [timestamp |-> timestamp, value |-> C25_Equity(cash, active_positions)]

\* No SHORT has been opened so far: every position the run has created is a
\* LONG (a position stays in active_positions or closed_trades_log for good).
C26_NoShortOpened == \A p \in Objects : p.type = "LONG"

\* C26: as long as no SHORT has been opened, cash is >= 0, no recorded
\* equity is <= 0 and the solvency check always goes on to the entry step;
\* and cash goes from >= 0 to below 0 only in a step that closes or
\* liquidates a SHORT.
C26_LongOnlySolvent ==
    /\ [](C26_NoShortOpened =>
            /\ RGe(cash, Zero)
            /\ \A i \in DOMAIN portfolio_history :
                  RGt(portfolio_history[i].value, Zero))
    /\ [][(pc = "check" /\ C26_NoShortOpened) => pc' = "open"]_vars
    /\ [][(RGe(cash, Zero) /\ RLt(cash', Zero)) =>
            /\ pc = "loop"
            /\ \E p \in Range(active_positions) :
                  /\ p.type = "SHORT"
                  /\ \/ pc' = "done"
                     \/ \E q \in Range(closed_trades_log') :
                           q.open_time = p.open_time]_vars

\* C26 witness: in a run that opened only LONGs, one of them closed at a
\* loss, the solvency check has passed with cash at 0 and a LONG active.
C26_Witness ==
    /\ pc = "open"
    /\ C26_NoShortOpened
    /\ cash = Zero
    /\ active_positions # <<>>
    /\ \E p \in Range(closed_trades_log) : RLt(p.pnl, Zero)

====
